---- MODULE Spec2Model ----
(***************************************************************************)
(* A model of the tool-augmented agent loop of plex-slack-app:             *)
(* src/src/agentFactory.ts (getToolsByAccess, simplifySchema, runAgent)    *)
(* together with the tool-service client it calls (listTools, callTool,    *)
(* initializeMcpClient, ensureInitialized).                                *)
(*                                                                         *)
(* JavaScript values are modelled as tagged records [t |-> tag, v |-> x]   *)
(* so that values of different JavaScript types can be compared.           *)
(***************************************************************************)
EXTENDS Integers, Sequences, FiniteSets, TLC

VARIABLES
    isInitialized,        \* mcpClient module flag
    pc,                   \* position of the run: idle, fetch, model, tool, done
    access,               \* runAgent parameter
    userEmail,            \* runAgent parameter
    conversationHistory,  \* runAgent parameter: the caller's array (or undefined)
    prompt,               \* runAgent parameter
    historyAtCall,        \* log: the caller's history as it was when run was called
    functions,            \* runAgent local: the function catalog advertised
    messages,             \* runAgent local: the message array
    iterations,           \* runAgent local: the loop counter
    message,              \* runAgent local: the model's response message of the round
    inflight,             \* the network call the run is awaiting
    outcome,              \* how the promise returned by runAgent settled
    replies,              \* log: the model responses received, in order
    modelLog,             \* log: number of model calls issued
    toolLog,              \* log: the tool invocations issued (name, args), in order
    fetchLog,             \* log: number of GET /tools requests issued
    failure,              \* log: the call of the run that the environment failed
    op,                   \* function specification: the function applied
    arg,                  \* function specification: its arguments
    ret,                  \* function specification: its result
    runs,                 \* concurrent specification: the frame of each run
    handler,              \* application specification: the Slack handler running
    posted,               \* application specification: what the request's user was sent
    client,               \* the call of initializeMcpClient in progress, and its record
    boot                  \* the start-up sequence of the process

vars == <<isInitialized, pc, access, userEmail, conversationHistory, prompt,
          historyAtCall, functions, messages, iterations, message, inflight,
          outcome, replies, modelLog, toolLog, fetchLog, failure, op, arg, ret,
          runs, handler, posted, client, boot>>

\* the variables of the function specification
fnVars == <<op, arg, ret>>

\* the variables a run leaves alone
\* the variables of the Slack handlers
appVars == <<handler, posted>>

\* the variables of the start-up sequence
bootVars == <<client, boot>>

otherVars == <<op, arg, ret, runs, handler, posted, client, boot>>

\* the variables of a run
runVars == <<isInitialized, pc, access, userEmail, conversationHistory, prompt,
             historyAtCall, functions, messages, iterations, message, inflight,
             outcome, replies, modelLog, toolLog, fetchLog, failure>>

-----------------------------------------------------------------------------
(* Bounds of the model *)

\* longest conversation history a caller passes
MaxHist == 1

\* longest tool list the tool service answers with (catalog specification)
MaxTools == 3

\* number of runs in flight together (concurrent specification)
NumRuns == 2

\* longest Slack thread handed to getThreadHistory (function specification)
MaxThread == 3

\* number of calls of initializeMcpClient (initialization specification)
MaxInitCalls == 4

\* nesting depth of the schemas handed to simplifySchema (function specification)
MaxDepth == 2

-----------------------------------------------------------------------------
(* JavaScript / JSON values *)

JUndef == [t |-> "undef", v |-> 0]
JNull == [t |-> "null", v |-> 0]
JBool(b) == [t |-> "bool", v |-> b]
JNum(n) == [t |-> "num", v |-> n]
JStr(s) == [t |-> "str", v |-> s]
JArr(s) == [t |-> "arr", v |-> s]
\* an object: the sequence of its own enumerable entries, in insertion order
JObj(entries) == [t |-> "obj", v |-> entries]
KV(k, val) == [k |-> k, v |-> val]

\* JavaScript truthiness (ToBoolean)
Truthy(x) ==
    CASE x.t = "undef" -> FALSE
      [] x.t = "null" -> FALSE
      [] x.t = "bool" -> x.v
      [] x.t = "num" -> x.v # 0
      [] x.t = "str" -> x.v # ""
      [] OTHER -> TRUE

\* typeof x === 'object' (true of null, arrays and objects)
TypeofObject(x) == x.t \in {"null", "arr", "obj"}

\* x.key for an object x: the value of the entry, undefined when there is none
HasKey(x, key) == x.t = "obj" /\ \E i \in 1..Len(x.v) : x.v[i].k = key
Get(x, key) ==
    IF HasKey(x, key)
    THEN x.v[CHOOSE i \in 1..Len(x.v) : x.v[i].k = key].v
    ELSE JUndef

\* JavaScript || on values
OrElse(a, b) == IF Truthy(a) THEN a ELSE b

RECURSIVE JoinWith(_, _)
JoinWith(strs, sep) ==
    IF Len(strs) = 0 THEN ""
    ELSE IF Len(strs) = 1 THEN strs[1]
    ELSE strs[1] \o sep \o JoinWith(Tail(strs), sep)

\* JSON.stringify of a JSON value (the strings of the model need no escaping)
RECURSIVE Stringify(_)
Stringify(x) ==
    CASE x.t = "null" -> "null"
      [] x.t = "undef" -> "null"
      [] x.t = "bool" -> IF x.v THEN "true" ELSE "false"
      [] x.t = "num" -> ToString(x.v)
      [] x.t = "str" -> "\"" \o x.v \o "\""
      [] x.t = "arr" ->
            "[" \o JoinWith([i \in 1..Len(x.v) |-> Stringify(x.v[i])], ",") \o "]"
      [] x.t = "obj" ->
            LET kept == SelectSeq(x.v, LAMBDA e : e.v.t # "undef")
            IN "{" \o JoinWith([i \in 1..Len(kept) |->
                         "\"" \o kept[i].k \o "\":" \o Stringify(kept[i].v)], ",")
                \o "}"

\* String(x): the string a template literal makes of x
RECURSIVE JsToString(_)
JsToString(x) ==
    CASE x.t = "str" -> x.v
      [] x.t = "num" -> ToString(x.v)
      [] x.t = "bool" -> IF x.v THEN "true" ELSE "false"
      [] x.t = "null" -> "null"
      [] x.t = "undef" -> "undefined"
      [] x.t = "arr" ->
            JoinWith([i \in 1..Len(x.v) |->
                         IF x.v[i].t \in {"null", "undef"} THEN ""
                         ELSE JsToString(x.v[i])], ",")
      [] x.t = "obj" -> "[object Object]"

\* Object.entries(x) of an object or an array (index keys "0", "1", ...)
ObjectEntries(x) ==
    IF x.t = "obj" THEN x.v
    ELSE IF x.t = "arr" THEN [i \in 1..Len(x.v) |-> KV(ToString(i - 1), x.v[i])]
    ELSE <<>>

-----------------------------------------------------------------------------
(* simplifySchema *)

\* the TypeError a property read of null raises, as the result of a call
Thrown == [t |-> "throw", v |-> "TypeError"]
IsThrow(x) == x.t = "throw"
AnyThrow(entries) == \E i \in 1..Len(entries) : IsThrow(entries[i].v)

SkippedKeys == {"$defs", "$schema", "$ref"}

RECURSIVE SimplifySchema(_), SimplifyProp(_), SimplifyValue(_, _),
          SimplifyPropKeepFields(_), SimplifyPropAnnotated(_)

\* a variant of SimplifyProp that keeps the reference and appends the
\* "Reference to" text to the description
SimplifyPropAnnotated(prop) ==
    IF Truthy(Get(prop, "$ref"))
    THEN JObj(<<KV("type", JStr("object")),
                KV("$ref", Get(prop, "$ref")),
                KV("description",
                   JStr(JsToString(OrElse(Get(prop, "description"), JStr("")))
                        \o " Reference to " \o JsToString(Get(prop, "$ref"))))>>)
    ELSE SimplifySchema(prop)

\* a variant of SimplifyProp that keeps the other fields of the property
SimplifyPropKeepFields(prop) ==
    IF Truthy(Get(prop, "$ref"))
    THEN JObj(<<KV("type", JStr("object")),
                KV("description",
                   OrElse(Get(prop, "description"),
                          JStr("Reference to " \o JsToString(Get(prop, "$ref")))))>>
              \o SelectSeq(prop.v, LAMBDA e : e.k \notin {"$ref", "type", "description"}))
    ELSE SimplifySchema(prop)

\* the replacement of one entry of a properties map
SimplifyProp(prop) ==
    IF Truthy(Get(prop, "$ref"))
    THEN JObj(<<KV("type", JStr("object")),
                KV("description",
                   OrElse(Get(prop, "description"),
                          JStr("Reference to " \o JsToString(Get(prop, "$ref")))))>>)
    ELSE SimplifySchema(prop)

\* the value stored under `key` for the entry (key, value) of a schema
SimplifyValue(key, value) ==
    IF key = "properties" /\ TypeofObject(value) /\ value.t # "null"
    THEN LET pe == ObjectEntries(value)
             ps == [i \in 1..Len(pe) |-> KV(pe[i].k, SimplifyProp(pe[i].v))]
         IN  IF AnyThrow(ps) THEN Thrown ELSE JObj(ps)
    ELSE IF key = "items" /\ TypeofObject(value)
    THEN IF value.t = "null" THEN Thrown
         ELSE IF Truthy(Get(value, "$ref"))
         THEN JObj(<<KV("type", JStr("object"))>>)
         ELSE SimplifySchema(value)
    ELSE IF value.t = "arr"
    THEN LET mapped == [i \in 1..Len(value.v) |->
                           IF TypeofObject(value.v[i])
                           THEN SimplifySchema(value.v[i])
                           ELSE value.v[i]]
         IN  IF \E i \in 1..Len(mapped) : IsThrow(mapped[i]) THEN Thrown
             ELSE JArr(mapped)
    ELSE IF TypeofObject(value) /\ value.t # "null"
    THEN SimplifySchema(value)
    ELSE value

SimplifySchema(schema) ==
    IF ~Truthy(schema) \/ ~TypeofObject(schema)
    THEN schema
    ELSE LET kept == SelectSeq(ObjectEntries(schema),
                               LAMBDA e : e.k \notin SkippedKeys)
             out == [i \in 1..Len(kept) |->
                        KV(kept[i].k, SimplifyValue(kept[i].k, kept[i].v))]
         IN  IF AnyThrow(out) THEN Thrown ELSE JObj(out)

-----------------------------------------------------------------------------
(* Tool descriptors and the function catalog *)

McpTool(name, description, parameters, acc) ==
    [name |-> name, description |-> description, parameters |-> parameters,
     output_schema |-> JNull, annotations |-> JNull, access |-> acc]

\* a variant of GetToolsByAccess that forgets the filter
GetToolsByAccessUnfiltered(tools, acc) ==
    [i \in 1..Len(tools) |->
        [name |-> tools[i].name, description |-> tools[i].description,
         parameters |-> tools[i].parameters]]

\* tools.filter(t => t.access === access).map(t => ({name, description, parameters}))
GetToolsByAccess(tools, acc) ==
    LET kept == SelectSeq(tools, LAMBDA t : t.access = acc)
    IN  [i \in 1..Len(kept) |->
            [name |-> kept[i].name, description |-> kept[i].description,
             parameters |-> kept[i].parameters]]

\* toolDefs.map(tool => ({name, description, parameters: simplifySchema(parameters)}))
BuildFunctions(toolDefs) ==
    [i \in 1..Len(toolDefs) |->
        [name |-> toolDefs[i].name, description |-> toolDefs[i].description,
         parameters |-> SimplifySchema(toolDefs[i].parameters)]]

FunctionsThrow(fns) == \E i \in 1..Len(fns) : IsThrow(fns[i].parameters)

FunctionNames(fns) == {fns[i].name : i \in 1..Len(fns)}

-----------------------------------------------------------------------------
(* Messages *)

Msg(role, content) ==
    [role |-> role, content |-> content, name |-> JUndef, function_call |-> JUndef]

FunctionCall(name, arguments) ==
    [t |-> "call", v |-> [name |-> name, arguments |-> arguments]]

\* the response message of the model: choices[0].message
ModelMessage(content, fc) ==
    [role |-> "assistant", content |-> content, name |-> JUndef, function_call |-> fc]

\* the system message text (the fixed formatting rules are abbreviated)
SystemMessage(acc, email) ==
    "You are a Plex assistant. Only use "
        \o (IF acc = "read" THEN "read-only" ELSE "write")
        \o " tools. FORMATTING RULES"
        \o (IF Truthy(email)
            THEN " USER CONTEXT: " \o JsToString(email)
            ELSE "")

\* ...(conversationHistory || [])
HistoryItems(history) == IF Truthy(history) THEN history.v ELSE <<>>

\* a variant of Assemble that puts the prompt before the history
AssemblePromptFirst(acc, email, history, p) ==
    <<Msg("system", JStr(SystemMessage(acc, email)))>>
        \o <<Msg("user", JStr(p))>>
        \o HistoryItems(history)

\* the initial value of the messages array
Assemble(acc, email, history, p) ==
    <<Msg("system", JStr(SystemMessage(acc, email)))>>
        \o HistoryItems(history)
        \o <<Msg("user", JStr(p))>>

\* a variant of ToolRoundMessages that pushes the result before the call
ToolRoundMessagesResultFirst(msg, result) ==
    <<[role |-> "function", content |-> JStr(Stringify(result)),
       name |-> JStr(msg.function_call.v.name), function_call |-> JUndef],
      [role |-> "assistant", content |-> msg.content, name |-> JUndef,
       function_call |-> msg.function_call]>>

\* the two messages a completed tool round pushes
ToolRoundMessages(msg, result) ==
    <<[role |-> "assistant", content |-> msg.content, name |-> JUndef,
       function_call |-> msg.function_call],
      [role |-> "function", content |-> JStr(Stringify(result)),
       name |-> JStr(msg.function_call.v.name), function_call |-> JUndef]>>

\* a variant of FinalAnswer that serializes the content
FinalAnswerSerialized(msg) == Stringify(msg.content)

\* a variant of FinalAnswer without the default for an absent content
FinalAnswerNoDefault(msg) == JsToString(msg.content)

\* return message.content || ""
FinalAnswer(msg) == OrElse(msg.content, JStr("")).v

\* callTool: return response.result || response
CallToolResult(response) == OrElse(Get(response, "result"), response)

MAX_ITERATIONS == 10

ExhaustionMessage ==
    "I'm sorry, I needed to make too many tool calls to answer your question."

-----------------------------------------------------------------------------
(* The inputs of the model: callers, the tool service, the language model *)

SchemaPlain ==
    JObj(<<KV("type", JStr("object")),
           KV("properties",
              JObj(<<KV("query", JObj(<<KV("type", JStr("string"))>>))>>))>>)

SchemaRef ==
    JObj(<<KV("$defs", JObj(<<KV("Foo", JObj(<<KV("type", JStr("object"))>>))>>)),
           KV("type", JStr("object")),
           KV("properties",
              JObj(<<KV("target", JObj(<<KV("$ref", JStr("#/$defs/Foo"))>>))>>))>>)

\* an array schema whose items field is null
SchemaNullItems == JObj(<<KV("type", JStr("array")), KV("items", JNull)>>)

ToolSearch == McpTool("search", "Search the library", SchemaPlain, "read")
ToolList == McpTool("list", "List libraries", JNull, "read")
ToolRename == McpTool("rename", "Rename an item", SchemaRef, "write")
ToolPurge == McpTool("purge", "Purge items", SchemaNullItems, "write")
ToolRemove == McpTool("remove", "Remove an item", SchemaPlain, "delete")

\* the tool lists the service answers GET /tools with
ServedCatalogs ==
    { <<ToolSearch, ToolRename, ToolRemove>>,
      <<ToolRename, ToolList, ToolSearch>>,
      <<ToolPurge, ToolSearch>> }

AccessScopes == {"read", "write"}

UserEmails == {JNull, JStr("sam@example.com")}

Prompts == {"How many movies do I have?"}

HistoryMessages ==
    {Msg("user", JStr("earlier question")), Msg("assistant", JStr("earlier answer"))}

RECURSIVE SeqsUpTo(_, _)
SeqsUpTo(S, n) ==
    IF n = 0 THEN {<<>>}
    ELSE LET shorter == SeqsUpTo(S, n - 1)
         IN  shorter \cup {Append(q, x) : q \in shorter, x \in S}

\* the conversationHistory argument: absent, or an array of at most MaxHist messages
Histories == {JUndef} \cup {JArr(h) : h \in SeqsUpTo(HistoryMessages, MaxHist)}

\* the argument payloads the model writes, and what JSON.parse makes of them
SyntaxError == [t |-> "throw", v |-> "SyntaxError"]

\* a variant of JsonParse that falls back to an empty object
JsonParseLenient(str) ==
    CASE str = "{}" -> JObj(<<>>)
      [] str = "{\"query\":\"x\"}" -> JObj(<<KV("query", JStr("x"))>>)
      [] str = "null" -> JNull
      [] OTHER -> JObj(<<>>)

JsonParse(str) ==
    CASE str = "{}" -> JObj(<<>>)
      [] str = "{\"query\":\"x\"}" -> JObj(<<KV("query", JStr("x"))>>)
      [] str = "null" -> JNull
      [] OTHER -> SyntaxError

ValidArgs == {"{\"query\":\"x\"}"}
MalformedArgs == {"{\"query\":"}
ArgStrings == ValidArgs \cup MalformedArgs

\* the tool names the model asks for: a read tool and a write tool
ReplyNames == {"search", "rename"}

\* the text contents of a final answer: absent, empty, or a text
TextContents == {JNull, JStr(""), JStr("Answer")}

TextMessages == {ModelMessage(c, JUndef) : c \in TextContents}

CallMessages ==
    {ModelMessage(JNull, FunctionCall(n, a)) : n \in ReplyNames, a \in ArgStrings}

\* the body the tool service answers a call of `name` with
ToolBodies(name) ==
    IF name = "search"
    THEN {JObj(<<KV("result", JObj(<<KV("count", JNum(3))>>))>>)}
    ELSE {JObj(<<KV("renamed", JBool(TRUE))>>)}

AllToolBodies == UNION {ToolBodies(n) : n \in ReplyNames}

FetchErrors == {"Transport", "HTTP", "BodyParse"}

-----------------------------------------------------------------------------
(* The state machine *)

NoCall == [kind |-> "none", payload |-> <<>>]
Pending == [kind |-> "pending", value |-> ""]
Returned(text) == [kind |-> "text", value |-> text]
Failed(err) == [kind |-> "error", value |-> err]

NoMessage == ModelMessage(JUndef, JUndef)

\* the state after the modules are loaded: no client, no run
RunInit ==
    /\ isInitialized = FALSE
    /\ pc = "idle"
    /\ access = "read"
    /\ userEmail = JUndef
    /\ conversationHistory = JUndef
    /\ prompt = ""
    /\ historyAtCall = JUndef
    /\ functions = <<>>
    /\ messages = <<>>
    /\ iterations = 0
    /\ message = NoMessage
    /\ inflight = NoCall
    /\ outcome = Pending
    /\ replies = <<>>
    /\ modelLog = 0
    /\ toolLog = <<>>
    /\ fetchLog = 0
    /\ failure = "none"

RunIds == 1..NumRuns

\* the frame of a run that has not been called
IdleRun ==
    [pc |-> "idle", access |-> "read", userEmail |-> JUndef, history |-> JUndef,
     prompt |-> "", functions |-> <<>>, messages |-> <<>>, iterations |-> 0,
     message |-> NoMessage, outcome |-> Pending,
     script |-> [catalog |-> <<>>, textAt |-> 0], steps |-> 0]

\* initializeMcpClient has not been called: no probe sent, no call settled
NoInitCall == [pc |-> "idle", probes |-> 0, log |-> <<>>]

\* no request is being handled
NoHandler ==
    [entry |-> "none", pc |-> "idle", subcommand |-> "", prompt |-> "",
     access |-> "read",
     email |-> JUndef, history |-> JUndef, reply |-> "", runFailed |-> FALSE,
     slackFailed |-> FALSE]

Init ==
    /\ RunInit
    /\ op = [fn |-> "none", done |-> FALSE]
    /\ arg = <<>>
    /\ ret = <<>>
    /\ runs = [i \in RunIds |-> IdleRun]
    /\ handler = NoHandler
    /\ posted = <<>>
    /\ client = NoInitCall
    /\ boot = "loaded"

\* initializeMcpClient: the probe answers ok, or with a failure
InitializeMcpClient(probeOk) ==
    /\ isInitialized' = (isInitialized \/ probeOk)
    /\ UNCHANGED <<pc, access, userEmail, conversationHistory, prompt,
                   historyAtCall, functions, messages, iterations, message,
                   inflight, outcome, replies, modelLog, toolLog, fetchLog,
                   failure, otherVars>>

\* the run ends: the promise of runAgent settles
Settle(result) ==
    /\ pc' = "done"
    /\ inflight' = NoCall
    /\ outcome' = result

\* a variant of LoopHead that tests iterations <= MAX_ITERATIONS
LoopHeadOffByOne(msgs, fns) ==
    IF iterations <= MAX_ITERATIONS
    THEN /\ iterations' = iterations + 1
         /\ pc' = "model"
         /\ inflight' = [kind |-> "model",
                         payload |-> [messages |-> msgs, functions |-> fns]]
         /\ modelLog' = modelLog + 1
         /\ outcome' = outcome
    ELSE /\ Settle(Returned(ExhaustionMessage))
         /\ UNCHANGED <<iterations, modelLog>>

\* a variant of LoopHead that increments first and tests the new count
LoopHeadIncrementFirst(msgs, fns) ==
    /\ iterations' = iterations + 1
    /\ IF iterations + 1 > MAX_ITERATIONS
       THEN /\ Settle(Returned(ExhaustionMessage))
            /\ UNCHANGED modelLog
       ELSE /\ pc' = "model"
            /\ inflight' = [kind |-> "model",
                            payload |-> [messages |-> msgs, functions |-> fns]]
            /\ modelLog' = modelLog + 1
            /\ outcome' = outcome

\* a variant of LoopHead that gives up one round early
LoopHeadEarly(msgs, fns) ==
    IF iterations < MAX_ITERATIONS - 1
    THEN /\ iterations' = iterations + 1
         /\ pc' = "model"
         /\ inflight' = [kind |-> "model",
                         payload |-> [messages |-> msgs, functions |-> fns]]
         /\ modelLog' = modelLog + 1
         /\ outcome' = outcome
    ELSE /\ Settle(Returned(ExhaustionMessage))
         /\ UNCHANGED <<iterations, modelLog>>

\* a variant of LoopHead that neither calls nor returns once the cap is reached
LoopHeadSpin(msgs, fns) ==
    IF iterations < MAX_ITERATIONS
    THEN /\ iterations' = iterations + 1
         /\ pc' = "model"
         /\ inflight' = [kind |-> "model",
                         payload |-> [messages |-> msgs, functions |-> fns]]
         /\ modelLog' = modelLog + 1
         /\ outcome' = outcome
    ELSE /\ pc' = "spin"
         /\ inflight' = NoCall
         /\ UNCHANGED <<iterations, modelLog, outcome>>

\* the head of the while loop, entered with the messages array msgs
LoopHead(msgs, fns) ==
    IF iterations < MAX_ITERATIONS
    THEN /\ iterations' = iterations + 1
         /\ pc' = "model"
         /\ inflight' = [kind |-> "model",
                         payload |-> [messages |-> msgs, functions |-> fns]]
         /\ modelLog' = modelLog + 1
         /\ outcome' = outcome
    ELSE /\ Settle(Returned(ExhaustionMessage))
         /\ UNCHANGED <<iterations, modelLog>>

\* runAgent is called: getToolsByAccess -> listTools -> ensureInitialized, fetch
StartRun(p, acc, email, history) ==
    /\ pc = "idle"
    /\ prompt' = p
    /\ access' = acc
    /\ userEmail' = email
    /\ conversationHistory' = history
    /\ historyAtCall' = history
    /\ functions' = <<>>
    /\ messages' = <<>>
    /\ iterations' = 0
    /\ message' = NoMessage
    /\ replies' = <<>>
    /\ modelLog' = 0
    /\ toolLog' = <<>>
    /\ IF isInitialized
       THEN /\ pc' = "fetch"
            /\ inflight' = [kind |-> "tools", payload |-> <<>>]
            /\ outcome' = Pending
            /\ fetchLog' = 1
            /\ failure' = "none"
       ELSE /\ Settle(Failed("NotInitialized"))
            /\ fetchLog' = 0
            /\ failure' = "catalog"
    /\ UNCHANGED <<isInitialized, otherVars>>

\* a variant of ToolsRequestFails that goes on with an empty function list
ToolsRequestFailsEmptyCatalog(err) ==
    /\ pc = "fetch"
    /\ failure' = "catalog"
    /\ LET msgs == Assemble(access, userEmail, conversationHistory, prompt)
       IN  /\ functions' = <<>>
           /\ messages' = msgs
           /\ LoopHead(msgs, <<>>)
    /\ UNCHANGED <<isInitialized, access, userEmail, conversationHistory, prompt,
                   historyAtCall, message, replies, toolLog, fetchLog, otherVars>>

\* GET /tools fails: transport error, non-success status, or unreadable body
ToolsRequestFails(err) ==
    /\ pc = "fetch"
    /\ failure' = "catalog"
    /\ Settle(Failed(err))
    /\ UNCHANGED <<isInitialized, access, userEmail, conversationHistory, prompt,
                   historyAtCall, functions, messages, iterations, message,
                   replies, modelLog, toolLog, fetchLog, otherVars>>

\* GET /tools answers with a tool list: build functions and messages, enter the loop
ToolsRequestOk(tools) ==
    /\ pc = "fetch"
    /\ LET fns == BuildFunctions(GetToolsByAccess(tools, access))
           msgs == Assemble(access, userEmail, conversationHistory, prompt)
       IN  IF FunctionsThrow(fns)
           THEN /\ Settle(Failed("TypeError"))
                /\ UNCHANGED <<functions, messages, iterations, modelLog>>
           ELSE /\ functions' = fns
                /\ messages' = msgs
                /\ LoopHead(msgs, fns)
    /\ UNCHANGED <<isInitialized, access, userEmail, conversationHistory, prompt,
                   historyAtCall, message, replies, toolLog, fetchLog, failure,
                   otherVars>>

\* the model call fails
ModelCallFails ==
    /\ pc = "model"
    /\ failure' = "model"
    /\ Settle(Failed("ModelCall"))
    /\ UNCHANGED <<isInitialized, access, userEmail, conversationHistory, prompt,
                   historyAtCall, functions, messages, iterations, message,
                   replies, modelLog, toolLog, fetchLog, otherVars>>

\* the model answers with a message that carries no function call
ModelReturnsText(msg) ==
    /\ pc = "model"
    /\ ~Truthy(msg.function_call)
    /\ message' = msg
    /\ replies' = Append(replies, "text")
    /\ Settle(Returned(FinalAnswer(msg)))
    /\ UNCHANGED <<isInitialized, access, userEmail, conversationHistory, prompt,
                   historyAtCall, functions, messages, iterations,
                   modelLog, toolLog, fetchLog, failure, otherVars>>

\* a variant of ModelReturnsCall in which callTool does not test the flag
ModelReturnsCallUnguarded(msg) ==
    /\ pc = "model"
    /\ Truthy(msg.function_call)
    /\ message' = msg
    /\ replies' = Append(replies, "call")
    /\ LET name == msg.function_call.v.name
           args == JsonParse(msg.function_call.v.arguments)
       IN  IF IsThrow(args)
           THEN /\ Settle(Failed("SyntaxError"))
                /\ UNCHANGED <<toolLog, failure>>
           ELSE /\ pc' = "tool"
                /\ inflight' = [kind |-> "tool",
                                payload |-> [tool |-> name, arguments |-> args]]
                /\ toolLog' = Append(toolLog, [tool |-> name, arguments |-> args])
                /\ outcome' = outcome
                /\ UNCHANGED failure
    /\ UNCHANGED <<isInitialized, access, userEmail, conversationHistory, prompt,
                   historyAtCall, functions, messages, iterations,
                   modelLog, fetchLog, otherVars>>

\* a variant of ModelReturnsCall that issues the next model call with the tool call
ModelReturnsCallPipelined(msg) ==
    /\ pc = "model"
    /\ Truthy(msg.function_call)
    /\ message' = msg
    /\ replies' = Append(replies, "call")
    /\ LET name == msg.function_call.v.name
           args == JsonParse(msg.function_call.v.arguments)
       IN  IF IsThrow(args)
           THEN /\ Settle(Failed("SyntaxError"))
                /\ UNCHANGED <<toolLog, failure, modelLog>>
           ELSE IF ~isInitialized
           THEN /\ Settle(Failed("NotInitialized"))
                /\ failure' = "tool"
                /\ UNCHANGED <<toolLog, modelLog>>
           ELSE /\ pc' = "tool"
                /\ inflight' = [kind |-> "tool",
                                payload |-> [tool |-> name, arguments |-> args]]
                /\ toolLog' = Append(toolLog, [tool |-> name, arguments |-> args])
                /\ outcome' = outcome
                /\ modelLog' = modelLog + 1
                /\ UNCHANGED failure
    /\ UNCHANGED <<isInitialized, access, userEmail, conversationHistory, prompt,
                   historyAtCall, functions, messages, iterations,
                   fetchLog, otherVars>>

\* the model answers with a function call: JSON.parse, then callTool
ModelReturnsCall(msg) ==
    /\ pc = "model"
    /\ Truthy(msg.function_call)
    /\ message' = msg
    /\ replies' = Append(replies, "call")
    /\ LET name == msg.function_call.v.name
           args == JsonParse(msg.function_call.v.arguments)
       IN  IF IsThrow(args)
           THEN /\ Settle(Failed("SyntaxError"))
                /\ UNCHANGED <<toolLog, failure>>
           ELSE IF ~isInitialized
           THEN /\ Settle(Failed("NotInitialized"))
                /\ failure' = "tool"
                /\ UNCHANGED toolLog
           ELSE /\ pc' = "tool"
                /\ inflight' = [kind |-> "tool",
                                payload |-> [tool |-> name, arguments |-> args]]
                /\ toolLog' = Append(toolLog, [tool |-> name, arguments |-> args])
                /\ outcome' = outcome
                /\ UNCHANGED failure
    /\ UNCHANGED <<isInitialized, access, userEmail, conversationHistory, prompt,
                   historyAtCall, functions, messages, iterations,
                   modelLog, fetchLog, otherVars>>

\* a variant of ToolCallFails that hands the failure to the model and goes on
ToolCallFailsFedBack(err) ==
    /\ pc = "tool"
    /\ failure' = "tool"
    /\ LET msgs == messages
                      \o ToolRoundMessages(message, JObj(<<KV("error", JStr(err))>>))
       IN  /\ messages' = msgs
           /\ LoopHead(msgs, functions)
    /\ UNCHANGED <<isInitialized, access, userEmail, conversationHistory, prompt,
                   historyAtCall, functions, message, replies, toolLog, fetchLog,
                   otherVars>>

\* POST /tools/call fails
ToolCallFails(err) ==
    /\ pc = "tool"
    /\ failure' = "tool"
    /\ Settle(Failed(err))
    /\ UNCHANGED <<isInitialized, access, userEmail, conversationHistory, prompt,
                   historyAtCall, functions, messages, iterations, message,
                   replies, modelLog, toolLog, fetchLog, otherVars>>

\* a variant of ToolCallOk in which messages shares the caller's history
\* array, so that the round's messages are pushed onto it as well
ToolCallOkAliased(body) ==
    /\ pc = "tool"
    /\ body \in ToolBodies(inflight.payload.tool)
    /\ LET pushed == ToolRoundMessages(message, CallToolResult(body))
           msgs == messages \o pushed
       IN  /\ messages' = msgs
           /\ conversationHistory' =
                 IF conversationHistory.t = "arr"
                 THEN JArr(conversationHistory.v \o pushed)
                 ELSE conversationHistory
           /\ LoopHead(msgs, functions)
    /\ UNCHANGED <<isInitialized, access, userEmail, prompt,
                   historyAtCall, functions, message, replies, toolLog, fetchLog,
                   failure, otherVars>>

\* POST /tools/call answers: push the round's two messages, back to the loop head
ToolCallOk(body) ==
    /\ pc = "tool"
    /\ body \in ToolBodies(inflight.payload.tool)
    /\ LET msgs == messages \o ToolRoundMessages(message, CallToolResult(body))
       IN  /\ messages' = msgs
           /\ LoopHead(msgs, functions)
    /\ UNCHANGED <<isInitialized, access, userEmail, conversationHistory, prompt,
                   historyAtCall, functions, message, replies, toolLog, fetchLog,
                   failure, otherVars>>

\* the caller has taken the settled result: the run's frame is discarded
Discard ==
    /\ pc = "done"
    /\ pc' = "idle"
    /\ access' = "read"
    /\ userEmail' = JUndef
    /\ conversationHistory' = JUndef
    /\ prompt' = ""
    /\ historyAtCall' = JUndef
    /\ functions' = <<>>
    /\ messages' = <<>>
    /\ iterations' = 0
    /\ message' = NoMessage
    /\ inflight' = NoCall
    /\ outcome' = Pending
    /\ replies' = <<>>
    /\ modelLog' = 0
    /\ toolLog' = <<>>
    /\ fetchLog' = 0
    /\ failure' = "none"
    /\ UNCHANGED <<isInitialized, otherVars>>

\* a network call of the run completes, with an answer or with a failure
Complete ==
    \/ \E err \in FetchErrors : ToolsRequestFails(err)
    \/ \E tools \in ServedCatalogs : ToolsRequestOk(tools)
    \/ ModelCallFails
    \/ \E msg \in TextMessages : ModelReturnsText(msg)
    \/ \E msg \in CallMessages : ModelReturnsCall(msg)
    \/ \E err \in FetchErrors : ToolCallFails(err)
    \/ \E body \in AllToolBodies : ToolCallOk(body)

\* the arguments callers give runAgent
RunInputs == Prompts \X AccessScopes \X UserEmails \X Histories

\* a smaller set of callers, for the fair specification
LiveInputs == Prompts \X AccessScopes \X {JNull} \X {JUndef}

Start(inputs) == \E in \in inputs : StartRun(in[1], in[2], in[3], in[4])

Next ==
    \/ \E ok \in BOOLEAN : InitializeMcpClient(ok)
    \/ Start(RunInputs)
    \/ Complete
    \/ Discard

LiveNext ==
    \/ \E ok \in BOOLEAN : InitializeMcpClient(ok)
    \/ Start(LiveInputs)
    \/ Complete
    \/ Discard

Spec == Init /\ [][Next]_vars

\* every outstanding network call completes (with an answer or a failure)
FairSpec == Init /\ [][LiveNext]_vars /\ WF_vars(Complete)

\* disconnect(): the exported cleanup function of the client module
Disconnect ==
    /\ isInitialized' = FALSE
    /\ UNCHANGED <<pc, access, userEmail, conversationHistory, prompt,
                   historyAtCall, functions, messages, iterations, message,
                   inflight, outcome, replies, modelLog, toolLog, fetchLog,
                   failure, otherVars>>

ClientNext ==
    \/ LiveNext
    \/ Disconnect

\* the client module with all its exported operations
ClientSpec == Init /\ [][ClientNext]_vars

-----------------------------------------------------------------------------
(* The initialization specification: initializeMcpClient step by step *)

\* what the probe GET /tools comes back with: a success status, a non-success
\* status, or no response at all
ProbeAnswers == {"ok", "status", "transport"}

\* the variables a step of initializeMcpClient leaves alone
initFrame == <<pc, access, userEmail, conversationHistory, prompt, historyAtCall,
               functions, messages, iterations, message, inflight, outcome,
               replies, modelLog, toolLog, fetchLog, failure, op, arg, ret, runs,
               handler, posted>>

\* a variant of CallInitialize that probes even when already initialized
CallInitializeAlwaysProbes ==
    /\ client.pc = "idle"
    /\ Len(client.log) < MaxInitCalls
    /\ client' = [client EXCEPT !.pc = "probing", !.probes = client.probes + 1]
    /\ UNCHANGED <<isInitialized, boot, initFrame>>

\* initializeMcpClient is called: return at once when initialized, else probe
CallInitialize ==
    /\ client.pc = "idle"
    /\ Len(client.log) < MaxInitCalls
    /\ IF isInitialized
       THEN client' = [client EXCEPT !.pc = "returned",
                                     !.log = Append(client.log, "skipped")]
       ELSE client' = [client EXCEPT !.pc = "probing",
                                     !.probes = client.probes + 1]
    /\ UNCHANGED <<isInitialized, boot, initFrame>>

\* a variant of ProbeAnswered that marks the client whatever the status
ProbeAnsweredAnyStatus(answer) ==
    /\ client.pc = "probing"
    /\ IF answer \in {"ok", "status"}
       THEN /\ isInitialized' = TRUE
            /\ client' = [client EXCEPT !.pc = "returned",
                                        !.log = Append(client.log, answer)]
       ELSE /\ isInitialized' = isInitialized
            /\ client' = [client EXCEPT !.pc = "threw",
                                        !.log = Append(client.log, answer)]
    /\ UNCHANGED <<boot, initFrame>>

\* the probe has come back: response.ok sets the flag, anything else throws
ProbeAnswered(answer) ==
    /\ client.pc = "probing"
    /\ IF answer = "ok"
       THEN /\ isInitialized' = TRUE
            /\ client' = [client EXCEPT !.pc = "returned",
                                        !.log = Append(client.log, answer)]
       ELSE /\ isInitialized' = isInitialized
            /\ client' = [client EXCEPT !.pc = "threw",
                                        !.log = Append(client.log, answer)]
    /\ UNCHANGED <<boot, initFrame>>

\* the caller has taken the settled promise; it may call again
InitializeSettled ==
    /\ client.pc \in {"returned", "threw"}
    /\ client' = [client EXCEPT !.pc = "idle"]
    /\ UNCHANGED <<isInitialized, boot, initFrame>>

InitNext ==
    \/ CallInitialize
    \/ \E answer \in ProbeAnswers : ProbeAnswered(answer)
    \/ InitializeSettled
    \/ Disconnect

InitSpec == Init /\ [][InitNext]_vars

Running == pc \notin {"idle", "done"}
Terminated == pc = "done"

-----------------------------------------------------------------------------
(* The function specification: a function of the code applied to drawn inputs *)

ToolUniverse == {ToolSearch, ToolList, ToolRename, ToolPurge, ToolRemove}

\* the tool lists GET /tools may answer with: at most MaxTools descriptors
CatalogInputs == SeqsUpTo(ToolUniverse, MaxTools)

\* the schema values a tool descriptor may carry at a property or items node
RefFoo == JStr("#/$defs/Foo")

SchemaLeaves ==
    {JNull,
     JStr("string"),
     JObj(<<KV("type", JStr("string"))>>),
     JObj(<<KV("$ref", RefFoo), KV("description", JStr("the foo")),
            KV("title", JStr("Foo"))>>),
     JObj(<<KV("$ref", RefFoo), KV("title", JStr("Foo"))>>),
     JObj(<<KV("$ref", RefFoo), KV("description", JStr(""))>>),
     JObj(<<KV("$ref", RefFoo),
            KV("description", JObj(<<KV("$schema", JStr("text")),
                                     KV("en", JStr("the foo"))>>))>>),
     JObj(<<KV("$schema", JStr("http://json-schema.org/draft-07/schema#")),
            KV("type", JStr("object"))>>)}

\* the schemas that hold the schema s one level down
Wrap(s) ==
    {JObj(<<KV("type", JStr("object")), KV("properties", JObj(<<KV("p", s)>>))>>),
     JObj(<<KV("type", JStr("array")), KV("items", s)>>),
     JObj(<<KV("anyOf", JArr(<<s, JObj(<<KV("type", JStr("null"))>>)>>))>>),
     JObj(<<KV("$defs", JObj(<<KV("Foo", JObj(<<KV("type", JStr("object"))>>))>>)),
            KV("additionalProperties", s)>>),
     JObj(<<KV("type", JStr("object")),
            KV("properties", JObj(<<KV("$schema", s)>>))>>)}

RECURSIVE Schemas(_)
Schemas(d) ==
    IF d = 0 THEN SchemaLeaves
    ELSE Schemas(d - 1) \cup UNION {Wrap(s) : s \in Schemas(d - 1)}

SchemaInputs == Schemas(MaxDepth)

\* the values the tool service may put under result
ResultValues ==
    {JObj(<<KV("count", JNum(3))>>), JArr(<<>>), JStr("ok"), JStr(""),
     JNum(0), JNum(7), JBool(FALSE), JBool(TRUE), JNull}

\* the JSON bodies POST /tools/call may answer with: wrapped and bare
BodyInputs ==
    {JObj(<<KV("result", v)>>) : v \in ResultValues}
        \cup {JObj(<<KV("renamed", JBool(TRUE))>>),
              JObj(<<KV("count", JNum(0))>>)}

\* getThreadHistory --------------------------------------------------------

BotUserId == "U0BOT"
MentionTokens == {"<@U0BOT>"}

\* text.replace(/<@[A-Z0-9]+>/g, "").trim(), on a text given as its words
CleanText(words) ==
    JoinWith(SelectSeq(words, LAMBDA w : w \notin MentionTokens), " ")

\* getThreadHistory: result is what conversations.replies answered with
\* (JUndef when the call failed or the answer has no messages)
GetThreadHistory(result, threadTs, botUserId) ==
    IF result.t # "arr" \/ Len(result.v) = 0
    THEN JArr(<<>>)
    ELSE LET kept == SelectSeq(result.v, LAMBDA msg : msg.ts # threadTs)
         IN  JArr([i \in 1..Len(kept) |->
                     IF Truthy(kept[i].bot_id) \/ kept[i].user = botUserId
                     THEN Msg("assistant", JStr(CleanText(kept[i].text)))
                     ELSE Msg("user", JStr(CleanText(kept[i].text)))])

\* the messages of a Slack thread: who wrote each, and whether it mentions the bot
MessageKinds == {"user", "userMention", "botUser", "botId"}

SlackMessage(ts, kind) ==
    [ts |-> ts,
     user |-> IF kind = "botUser" THEN BotUserId ELSE "U1",
     bot_id |-> IF kind = "botId" THEN JStr("B1") ELSE JUndef,
     text |-> IF kind = "userMention"
              THEN <<"<@U0BOT>", "question", ToString(ts)>>
              ELSE <<"message", ToString(ts)>>]

\* the threads: message i has timestamp i, the root has timestamp 1
Threads ==
    UNION {{[i \in 1..n |-> SlackMessage(i, kinds[i])] :
               kinds \in [1..n -> MessageKinds]} : n \in 1..MaxThread}

\* a thread, the answer of conversations.replies for it (absent when the call
\* fails), and the timestamp of the event being answered: a user's message
ThreadInputs ==
    {<<thread, answer, ts>> :
        thread \in Threads, answer \in {"ok", "failed"}, ts \in 1..MaxThread}

FnInit ==
    /\ RunInit
    /\ runs = [i \in RunIds |-> IdleRun]
    /\ handler = NoHandler
    /\ posted = <<>>
    /\ client = NoInitCall
    /\ boot = "loaded"
    /\ ret = <<>>
    /\ \/ \E tools \in CatalogInputs, acc \in AccessScopes :
             /\ op = [fn |-> "getToolsByAccess", done |-> FALSE]
             /\ arg = <<tools, acc>>
       \/ \E schema \in SchemaInputs :
             /\ op = [fn |-> "simplifySchema", done |-> FALSE]
             /\ arg = <<schema>>
       \/ \E body \in BodyInputs :
             /\ op = [fn |-> "callTool", done |-> FALSE]
             /\ arg = <<body>>
       \/ \E in \in ThreadInputs :
             /\ in[3] <= Len(in[1])
             /\ in[1][in[3]].user # BotUserId
             /\ ~Truthy(in[1][in[3]].bot_id)
             /\ op = [fn |-> "getThreadHistory", done |-> FALSE]
             /\ arg = <<in[1], in[2], in[3]>>

ApplyGetToolsByAccess ==
    /\ op.fn = "getToolsByAccess"
    /\ ~op.done
    /\ ret' = GetToolsByAccess(arg[1], arg[2])
    /\ op' = [op EXCEPT !.done = TRUE]
    /\ UNCHANGED <<arg, runVars, runs, appVars, bootVars>>

ApplySimplifySchema ==
    /\ op.fn = "simplifySchema"
    /\ ~op.done
    /\ ret' = SimplifySchema(arg[1])
    /\ op' = [op EXCEPT !.done = TRUE]
    /\ UNCHANGED <<arg, runVars, runs, appVars, bootVars>>

\* simplifySchema applied to its own result
ApplySimplifySchemaAgain ==
    /\ op.fn = "simplifySchema"
    /\ op.done
    /\ ~IsThrow(ret)
    /\ ret' = SimplifySchema(ret)
    /\ arg' = <<arg[1], ret>>
    /\ op' = [fn |-> "simplifySchemaTwice", done |-> TRUE]
    /\ UNCHANGED <<runVars, runs, appVars, bootVars>>

\* callTool once the response body has been read
ApplyCallTool ==
    /\ op.fn = "callTool"
    /\ ~op.done
    /\ ret' = CallToolResult(arg[1])
    /\ op' = [op EXCEPT !.done = TRUE]
    /\ UNCHANGED <<arg, runVars, runs, appVars, bootVars>>

\* getThreadHistory(client, channel, thread_ts, botUserId): thread_ts is the
\* timestamp of the root of the thread
ApplyGetThreadHistory ==
    /\ op.fn = "getThreadHistory"
    /\ ~op.done
    /\ ret' = GetThreadHistory(IF arg[2] = "ok" THEN JArr(arg[1]) ELSE JUndef,
                               1, BotUserId)
    /\ op' = [op EXCEPT !.done = TRUE]
    /\ UNCHANGED <<arg, runVars, runs, appVars, bootVars>>

FnNext ==
    \/ ApplyGetThreadHistory
    \/ ApplyGetToolsByAccess
    \/ ApplySimplifySchema
    \/ ApplySimplifySchemaAgain
    \/ ApplyCallTool

FnSpec == FnInit /\ [][FnNext]_vars

-----------------------------------------------------------------------------
(* The concurrent specification: several runs of runAgent interleaved.       *)
(* The locals of runAgent live in the frame of each call; the environment    *)
(* answers each run by that run's script.                                    *)

\* what the environment answers a run with: the tool list, and a text answer
\* in round textAt (tool calls before it; textAt = 0: tool calls for ever)
Scripts ==
    {[catalog |-> <<ToolSearch, ToolRename, ToolRemove>>, textAt |-> k] :
        k \in {0, 2}}

ConcInputs == Prompts \X AccessScopes \X {JNull} \X {JUndef} \X Scripts

\* the model's response to the call of round n under a script
ScriptReply(script, n) ==
    IF script.textAt = n
    THEN ModelMessage(JStr("Answer"), JUndef)
    ELSE ModelMessage(JNull, FunctionCall("search", "{\"query\":\"x\"}"))

\* the head of the while loop on a frame
FrameLoopHead(f, msgs) ==
    IF f.iterations < MAX_ITERATIONS
    THEN [f EXCEPT !.messages = msgs, !.iterations = f.iterations + 1,
                   !.pc = "model"]
    ELSE [f EXCEPT !.messages = msgs, !.pc = "done",
                   !.outcome = Returned(ExhaustionMessage)]

\* the frame of runAgent right after the call
FrameStart(in, initialized) ==
    [IdleRun EXCEPT !.prompt = in[1], !.access = in[2], !.userEmail = in[3],
                    !.history = in[4], !.script = in[5],
                    !.pc = IF initialized THEN "fetch" ELSE "done",
                    !.outcome = IF initialized THEN Pending
                                ELSE Failed("NotInitialized")]

\* the frame after the call it awaits has been answered
FrameStep(f) ==
    LET g == [f EXCEPT !.steps = f.steps + 1]
    IN  CASE f.pc = "fetch" ->
               LET fns == BuildFunctions(GetToolsByAccess(f.script.catalog, f.access))
               IN  IF FunctionsThrow(fns)
                   THEN [g EXCEPT !.pc = "done", !.outcome = Failed("TypeError")]
                   ELSE FrameLoopHead([g EXCEPT !.functions = fns],
                                      Assemble(f.access, f.userEmail, f.history,
                                               f.prompt))
          [] f.pc = "model" ->
               LET msg == ScriptReply(f.script, f.iterations)
               IN  IF ~Truthy(msg.function_call)
                   THEN [g EXCEPT !.message = msg, !.pc = "done",
                                  !.outcome = Returned(FinalAnswer(msg))]
                   ELSE IF IsThrow(JsonParse(msg.function_call.v.arguments))
                   THEN [g EXCEPT !.message = msg, !.pc = "done",
                                  !.outcome = Failed("SyntaxError")]
                   ELSE [g EXCEPT !.message = msg, !.pc = "tool"]
          [] f.pc = "tool" ->
               LET body == CHOOSE b \in ToolBodies(f.message.function_call.v.name) :
                               TRUE
               IN  FrameLoopHead(g, f.messages
                                      \o ToolRoundMessages(f.message,
                                                           CallToolResult(body)))
          [] OTHER -> f

\* a variant of StepRun in which functions is a variable of the module
StepRunSharedFunctions(rs, i) ==
    LET next == FrameStep(rs[i])
    IN  [j \in RunIds |->
            IF j = i THEN next ELSE [rs[j] EXCEPT !.functions = next.functions]]

\* the frames after run i has taken a step: the other frames are untouched
StepRun(rs, i) == [rs EXCEPT ![i] = FrameStep(rs[i])]

ConcStart(i, in) ==
    /\ runs[i].pc = "idle"
    /\ runs' = [runs EXCEPT ![i] = FrameStart(in, isInitialized)]
    /\ UNCHANGED <<runVars, fnVars, appVars, bootVars>>

ConcStep(i) ==
    /\ runs[i].pc \in {"fetch", "model", "tool"}
    /\ runs' = StepRun(runs, i)
    /\ UNCHANGED <<runVars, fnVars, appVars, bootVars>>

ConcInitialize ==
    /\ ~isInitialized
    /\ isInitialized' = TRUE
    /\ UNCHANGED <<pc, access, userEmail, conversationHistory, prompt,
                   historyAtCall, functions, messages, iterations, message,
                   inflight, outcome, replies, modelLog, toolLog, fetchLog,
                   failure, otherVars>>

ConcNext ==
    \/ ConcInitialize
    \/ \E i \in RunIds, in \in ConcInputs : ConcStart(i, in)
    \/ \E i \in RunIds : ConcStep(i)

ConcSpec == Init /\ [][ConcNext]_vars

-----------------------------------------------------------------------------
(* The application specification: the Slack entry points around runAgent *)

Entries == {"userMessage", "app_mention", "plex"}

\* the text of the event after trimming, and the first word of a /plex command
RequestTexts == {"", "How many movies do I have?"}
Subcommands == {"ask", "rename", "help"}

FailureText == "Sorry, I encountered an error processing your request."
GreetingText == "How can I help you with your Plex library?"

\* the start-up function calls initializeMcpClient, once
BootInitializes ==
    /\ boot = "loaded"
    /\ client.log = <<>>
    /\ CallInitialize

\* a variant of BootStartsApp that does not await initializeMcpClient
BootStartsAppUnawaited ==
    /\ boot = "loaded"
    /\ boot' = "started"
    /\ UNCHANGED <<client, isInitialized, initFrame>>

\* await initializeMcpClient() has returned: await app.start(port)
BootStartsApp ==
    /\ boot = "loaded"
    /\ client.pc = "returned"
    /\ boot' = "started"
    /\ UNCHANGED <<client, isInitialized, initFrame>>

\* await initializeMcpClient() has thrown: the start-up function rejects and
\* app.start is never reached
BootFails ==
    /\ boot = "loaded"
    /\ client.pc = "threw"
    /\ boot' = "crashed"
    /\ UNCHANGED <<client, isInitialized, initFrame>>

\* a variant of HandlerReceive in which every /plex run has write scope
HandlerReceiveWriteScope(entry, text, sub) ==
    /\ boot = "started"
    /\ handler.pc = "idle"
    /\ pc = "idle"
    /\ LET h == [NoHandler EXCEPT !.entry = entry, !.prompt = text]
       IN  CASE entry = "userMessage" ->
                  /\ handler' = IF text = "" THEN [h EXCEPT !.pc = "done"]
                                ELSE [h EXCEPT !.pc = "calling", !.email = JNull,
                                               !.history = JArr(<<>>)]
                  /\ posted' = <<>>
             [] entry = "app_mention" ->
                  /\ handler' = IF text = "" THEN [h EXCEPT !.pc = "done"]
                                ELSE [h EXCEPT !.pc = "calling", !.email = JNull,
                                               !.history = JArr(<<>>)]
                  /\ posted' = IF text = "" THEN <<GreetingText>> ELSE <<>>
             [] entry = "plex" ->
                  /\ handler' = IF sub = "ask"
                                THEN [h EXCEPT !.pc = "calling", !.subcommand = sub,
                                               !.access = "write"]
                                ELSE IF sub = "rename"
                                THEN [h EXCEPT !.pc = "calling", !.subcommand = sub,
                                               !.access = "write"]
                                ELSE [h EXCEPT !.pc = "done", !.subcommand = sub]
                  /\ posted' = IF sub \in {"ask", "rename"} THEN <<>>
                             ELSE <<"Unknown subcommand: " \o sub>>
    /\ UNCHANGED <<runVars, fnVars, runs, bootVars>>

\* an event or command arrives at the started app
HandlerReceive(entry, text, sub) ==
    /\ boot = "started"
    /\ handler.pc = "idle"
    /\ pc = "idle"
    /\ LET h == [NoHandler EXCEPT !.entry = entry, !.prompt = text]
       IN  CASE entry = "userMessage" ->
                  /\ handler' = IF text = "" THEN [h EXCEPT !.pc = "done"]
                                ELSE [h EXCEPT !.pc = "calling", !.email = JNull,
                                               !.history = JArr(<<>>)]
                  /\ posted' = <<>>
             [] entry = "app_mention" ->
                  /\ handler' = IF text = "" THEN [h EXCEPT !.pc = "done"]
                                ELSE [h EXCEPT !.pc = "calling", !.email = JNull,
                                               !.history = JArr(<<>>)]
                  /\ posted' = IF text = "" THEN <<GreetingText>> ELSE <<>>
             [] entry = "plex" ->
                  /\ handler' = IF sub = "ask"
                                THEN [h EXCEPT !.pc = "calling", !.subcommand = sub]
                                ELSE IF sub = "rename"
                                THEN [h EXCEPT !.pc = "calling", !.subcommand = sub,
                                               !.access = "write"]
                                ELSE [h EXCEPT !.pc = "done", !.subcommand = sub]
                  /\ posted' = IF sub \in {"ask", "rename"} THEN <<>>
                             ELSE <<"Unknown subcommand: " \o sub>>
    /\ UNCHANGED <<runVars, fnVars, runs, bootVars>>

\* userMessage: an awaited Slack call before runAgent (setStatus) rejects
HandlerPrepareFails ==
    /\ handler.pc = "calling"
    /\ handler.entry = "userMessage"
    /\ pc = "idle"
    /\ handler' = [handler EXCEPT !.pc = "catch"]
    /\ UNCHANGED <<posted, runVars, fnVars, runs, bootVars>>

\* const reply = await runAgent(prompt, access, userEmail, conversationHistory)
HandlerCallsRunAgent ==
    /\ handler.pc = "calling"
    /\ StartRun(handler.prompt, handler.access, handler.email, handler.history)

\* the promise of runAgent has settled: the handler goes on, or to its catch
HandlerResumes ==
    /\ handler.pc = "calling"
    /\ pc = "done"
    /\ handler' = IF outcome.kind = "text"
                  THEN [handler EXCEPT !.pc = "reply", !.reply = outcome.value]
                  ELSE [handler EXCEPT !.pc = "catch", !.runFailed = TRUE]
    /\ UNCHANGED <<posted, runVars, fnVars, runs, bootVars>>

\* await say({text: reply}) / await respond(reply)
HandlerReplies(ok) ==
    /\ handler.pc = "reply"
    /\ IF ok
       THEN /\ posted' = Append(posted, handler.reply)
            /\ handler' = [handler EXCEPT !.pc = "done"]
       ELSE /\ posted' = posted
            /\ handler' = [handler EXCEPT !.pc = "catch", !.slackFailed = TRUE]
    /\ UNCHANGED <<runVars, fnVars, runs, bootVars>>

\* the catch block of the handler
HandlerCatch(ok) ==
    /\ handler.pc = "catch"
    /\ IF handler.entry = "plex"
       THEN /\ posted' = posted
            /\ handler' = [handler EXCEPT !.pc = "done"]
       ELSE IF ok
       THEN /\ posted' = Append(posted, FailureText)
            /\ handler' = [handler EXCEPT !.pc = "done"]
       ELSE /\ posted' = posted
            /\ handler' = [handler EXCEPT !.pc = "done", !.slackFailed = TRUE]
    /\ UNCHANGED <<runVars, fnVars, runs, bootVars>>

\* the frame of the run is dropped once the handler has taken its result
HandlerDiscard ==
    /\ handler.pc # "calling"
    /\ Discard

\* the handler has returned; the next request may be handled
HandlerReturns ==
    /\ handler.pc = "done"
    /\ pc = "idle"
    /\ handler' = NoHandler
    /\ posted' = <<>>
    /\ UNCHANGED <<runVars, fnVars, runs, bootVars>>

AppNext ==
    \/ BootInitializes
    \/ \E answer \in ProbeAnswers : ProbeAnswered(answer)
    \/ BootStartsApp
    \/ BootFails
    \/ \E entry \in Entries, text \in RequestTexts, sub \in Subcommands :
          HandlerReceive(entry, text, sub)
    \/ HandlerPrepareFails
    \/ HandlerCallsRunAgent
    \/ Complete
    \/ HandlerResumes
    \/ \E ok \in BOOLEAN : HandlerReplies(ok)
    \/ \E ok \in BOOLEAN : HandlerCatch(ok)
    \/ HandlerDiscard
    \/ HandlerReturns

AppSpec == Init /\ [][AppNext]_vars

-----------------------------------------------------------------------------
(* Properties *)

\* every model response received so far carried a function call
AllCalls == \A i \in 1..Len(replies) : replies[i] = "call"

\* the last model response received carried no function call
LastIsText == Len(replies) >= 1 /\ replies[Len(replies)] = "text"

\* the text content of a message, the empty string when it has none
ContentText(msg) == IF msg.content.t = "str" THEN msg.content.v ELSE ""

\* the messages the run started from: system, history, prompt
InitialLen == Len(HistoryItems(historyAtCall)) + 2

\* the tool rounds completed: each pushed two messages
CompletedRounds == (Len(messages) - InitialLen) \div 2

\* C1: a run in which every model response carries a tool call, and which
\* returns normally (no call failed), has made exactly 10 model calls and 10
\* tool calls and returns the fixed exhaustion string; no run makes an 11th
\* model call.
C1_ExhaustionAfterTenRounds ==
    /\ modelLog <= 10
    /\ (pc = "done" /\ outcome.kind = "text" /\ AllCalls)
          => /\ modelLog = 10
             /\ Len(replies) = 10
             /\ Len(toolLog) = 10
             /\ outcome.value = ExhaustionMessage

C1_Witness ==
    /\ pc = "done"
    /\ AllCalls
    /\ outcome = Returned(ExhaustionMessage)
    /\ modelLog = 10
    /\ Len(toolLog) = 10

\* C2: when the model answers with tool calls on rounds 1..k-1 and with a
\* plain-text message on round k (1 <= k <= 10), the run returns that text
\* after exactly k model calls and exactly k-1 tool calls.
C2_AnswerAtRoundK ==
    LastIsText =>
        LET k == Len(replies)
        IN  /\ k \in 1..10
            /\ \A i \in 1..(k - 1) : replies[i] = "call"
            /\ pc = "done"
            /\ outcome.kind = "text"
            /\ outcome.value = ContentText(message)
            /\ modelLog = k
            /\ Len(toolLog) = k - 1

C2_Witness ==
    /\ LastIsText
    /\ Len(replies) = 3
    /\ outcome = Returned("Answer")
    /\ modelLog = 3
    /\ Len(toolLog) = 2

\* C3: every run that has started eventually terminates, whatever the model
\* answers, provided every network call it issues completes.
C3_RunTerminates == Running ~> Terminated

C3_Witness ==
    /\ Terminated
    /\ iterations = 10
    /\ Len(replies) = 10
    /\ AllCalls

\* C4: iterations is always between 0 and 10, and no step of a run
\* decreases it.
C4_IterationsBoundedMonotone ==
    /\ [](iterations \in 0..10)
    /\ [][pc' # "idle" => iterations' >= iterations]_vars

C4_Witness == iterations = 10 /\ pc = "tool"

\* C5: when the model's function call has an argument payload that is not
\* valid JSON, the run has failed with an error and no tool was invoked for
\* that round; no tool is ever invoked with unparsed arguments.
C5_MalformedArgumentsFail ==
    /\ (Truthy(message.function_call)
           /\ message.function_call.v.arguments \in MalformedArgs)
          => /\ pc = "done"
             /\ outcome.kind = "error"
             /\ Len(toolLog) = Len(replies) - 1
    /\ \A i \in 1..Len(toolLog) : toolLog[i].arguments.t \in {"obj", "null"}

C5_Witness ==
    /\ Truthy(message.function_call)
    /\ message.function_call.v.arguments \in MalformedArgs
    /\ outcome = Failed("SyntaxError")
    /\ Len(replies) = 2
    /\ Len(toolLog) = 1

\* C6: when the catalog fetch, a model call or a tool invocation fails, the
\* run has ended with an error (never a text result), the failed call was
\* issued once, and no model call or tool call follows it.
C6_FailurePropagates ==
    failure # "none" =>
        /\ pc = "done"
        /\ outcome.kind = "error"
        /\ inflight.kind = "none"
        /\ failure = "catalog" =>
              fetchLog <= 1 /\ modelLog = 0 /\ Len(toolLog) = 0
        /\ failure = "model" =>
              modelLog = Len(replies) + 1 /\ Len(toolLog) = Len(replies)
        /\ failure = "tool" =>
              /\ modelLog = Len(replies)
              /\ Len(toolLog) <= CompletedRounds + 1
              /\ CompletedRounds = Len(replies) - 1

C6_Witness ==
    /\ failure = "tool"
    /\ outcome = Failed("HTTP")
    /\ Len(replies) = 2
    /\ Len(toolLog) = 2

\* C7: every tool invoked in a run is one of the functions advertised to the
\* model for that run.
C7_OnlyAdvertisedToolsInvoked ==
    \A i \in 1..Len(toolLog) : toolLog[i].tool \in FunctionNames(functions)

\* the positions of the descriptors of tools whose access level is acc
MatchingPositions(tools, acc) == {i \in 1..Len(tools) : tools[i].access = acc}

\* the j-th smallest element of a set of positions
NthPosition(S, j) == CHOOSE k \in S : Cardinality({m \in S : m < k}) = j - 1

\* C8: access filtering yields all and only the descriptors whose access
\* level equals the scope, in their original order; with scope read the
\* result holds no tool whose access level is write or delete.
C8_FilterExact ==
    (op.fn = "getToolsByAccess" /\ op.done) =>
        LET tools == arg[1]
            acc == arg[2]
            idx == MatchingPositions(tools, acc)
        IN  /\ Len(ret) = Cardinality(idx)
            /\ \A j \in 1..Len(ret) :
                  LET t == tools[NthPosition(idx, j)]
                  IN  /\ ret[j].name = t.name
                      /\ ret[j].description = t.description
                      /\ ret[j].parameters = t.parameters
            /\ acc = "read" =>
                  \A j \in 1..Len(ret) :
                      \A t \in ToolUniverse :
                          t.access \in {"write", "delete"} => ret[j].name # t.name

C8_Witness ==
    /\ op.fn = "getToolsByAccess"
    /\ op.done
    /\ arg[2] = "read"
    /\ Len(arg[1]) = 3
    /\ arg[1][2].access = "write"
    /\ Len(ret) = 2

C10_TextEndsRun ==
    [][(Len(replies') = Len(replies) + 1 /\ replies'[Len(replies')] = "text")
         => /\ pc' = "done"
            /\ outcome' = Returned(ContentText(message'))
            /\ toolLog' = toolLog
            /\ messages' = messages
            /\ modelLog' = modelLog
            /\ inflight'.kind = "none"]_vars

C10_Witness ==
    /\ LastIsText
    /\ pc = "done"
    /\ message.content = JNull
    /\ outcome = Returned("")
    /\ Len(toolLog) = 1

\* the tool rounds completed, also before the messages are built
RoundsDone == IF Len(messages) = 0 THEN 0 ELSE CompletedRounds

\* the model calls issued and neither answered nor failed
OutstandingModel ==
    modelLog - Len(replies) - (IF failure = "model" THEN 1 ELSE 0)

\* the tool calls issued and neither answered nor failed
OutstandingTool ==
    Len(toolLog) - RoundsDone
        - (IF failure = "tool" /\ outcome.value # "NotInitialized" THEN 1 ELSE 0)

\* C11: at most one model call or tool call of a run is outstanding at any
\* time; the tool call of round i is issued after the model call of round i
\* was answered, and the model call of round i+1 after the tool call of
\* round i was answered.
C11_OneCallOutstanding ==
    /\ OutstandingModel \in {0, 1}
    /\ OutstandingTool \in {0, 1}
    /\ OutstandingModel + OutstandingTool <= 1
    /\ Len(toolLog) <= Len(replies)
    /\ modelLog <= RoundsDone + 1

C11_Witness ==
    /\ pc = "tool"
    /\ Len(toolLog) = 2
    /\ OutstandingTool = 1
    /\ OutstandingModel = 0

\* the frame of a run executing alone: n steps after its call
RECURSIVE SoloRun(_, _)
SoloRun(f, n) == IF n = 0 THEN f ELSE FrameStep(SoloRun(f, n - 1))

\* the arguments and the script a frame was called with
FrameInput(f) == <<f.prompt, f.access, f.userEmail, f.history, f.script>>

SerializedResult(tool) ==
    IF tool = "search" THEN "{\"count\":3}" ELSE "{\"renamed\":true}"

\* the messages handed to the pending model call are system, history, prompt
\* and one assistant/function pair per tool call made so far, in order
PairsInOrder ==
    pc = "model" =>
        LET seen == inflight.payload.messages
            n == modelLog
        IN  /\ seen = messages
            /\ Len(toolLog) = n - 1
            /\ Len(seen) = InitialLen + 2 * (n - 1)
            /\ seen[1] = Msg("system", JStr(SystemMessage(access, userEmail)))
            /\ SubSeq(seen, 2, InitialLen - 1) = HistoryItems(historyAtCall)
            /\ seen[InitialLen] = Msg("user", JStr(prompt))
            /\ \A k \in 1..(n - 1) :
                  LET call == seen[InitialLen + 2 * k - 1]
                      res == seen[InitialLen + 2 * k]
                  IN  /\ call.role = "assistant"
                      /\ Truthy(call.function_call)
                      /\ call.function_call.v.name = toolLog[k].tool
                      /\ res.role = "function"
                      /\ res.name = JStr(toolLog[k].tool)
                      /\ res.content = JStr(SerializedResult(toolLog[k].tool))
                      /\ res.function_call = JUndef

\* a step of a run keeps the messages it had and adds none or two at the end
AppendOnly ==
    (Len(messages) > 0 /\ pc' # "idle") =>
        /\ Len(messages') \in {Len(messages), Len(messages) + 2}
        /\ SubSeq(messages', 1, Len(messages)) = messages

\* C17: during a run the messages only grow at the end, by one assistant
\* tool-call message followed by the function message of the same tool with
\* the serialized result per completed round; the n-th model call sees
\* system, history, prompt and n-1 such pairs in round order.
C17_MessagesGrowByPairs == []PairsInOrder /\ [][AppendOnly]_vars

C17_Witness ==
    /\ pc = "model"
    /\ modelLog = 3
    /\ Len(messages) = InitialLen + 4
    /\ InitialLen = 3
    /\ toolLog[1].tool = "search"
    /\ toolLog[2].tool = "rename"

\* the run has ended with the exhaustion message
Exhausted == pc = "done" /\ outcome = Returned(ExhaustionMessage)

\* C18 as stated: the counter is incremented before the cap is tested, so
\* the run that ends with the exhaustion message has a counter above the cap.
C18_IncrementThenTest == Exhausted => iterations > MAX_ITERATIONS

\* the counter counts the model calls and stays within the cap; exhaustion
\* is reached with the counter equal to the cap
CounterWithinCap ==
    /\ pc # "idle" => iterations = modelLog
    /\ iterations <= MAX_ITERATIONS
    /\ Exhausted => iterations = MAX_ITERATIONS

\* the loop head after a completed tool round: the cap is tested on the
\* counter as it stands; at the cap the run ends without a model call and
\* without an increment, below it the counter is incremented and the model
\* is called
TestThenIncrement ==
    (pc = "tool" /\ Len(messages') = Len(messages) + 2) =>
        IF iterations = MAX_ITERATIONS
        THEN /\ pc' = "done"
             /\ outcome' = Returned(ExhaustionMessage)
             /\ iterations' = iterations
             /\ modelLog' = modelLog
        ELSE /\ pc' = "model"
             /\ iterations' = iterations + 1
             /\ modelLog' = modelLog + 1

\* C18 (amended): in each loop round the cap is tested first, on the counter
\* as it stands, and the counter is incremented only when it is below the
\* cap; the run ends with the exhaustion message exactly when the counter
\* equals the cap at the loop head, no model call is made in that round and
\* the counter never exceeds the cap.
C18_TestThenIncrement == []CounterWithinCap /\ [][TestThenIncrement]_vars

C18_Witness ==
    /\ Exhausted
    /\ iterations = MAX_ITERATIONS
    /\ modelLog = MAX_ITERATIONS
    /\ access = "write"

\* C19 as stated: once set, the flag of the client is never reset, and a run
\* that got past its catalog fetch (so started against an initialized client)
\* never fails a later call as not initialized.
C19_InitializedNeverReset ==
    /\ [][isInitialized => isInitialized']_vars
    /\ [](~(pc = "done" /\ outcome = Failed("NotInitialized") /\ modelLog >= 1))

\* the value x has one of the keys $ref, $defs, $schema somewhere in its tree
RECURSIVE HasSkippedKey(_)
HasSkippedKey(x) ==
    CASE x.t = "obj" ->
            \E i \in 1..Len(x.v) :
                x.v[i].k \in {"$ref", "$defs", "$schema"} \/ HasSkippedKey(x.v[i].v)
      [] x.t = "arr" -> \E i \in 1..Len(x.v) : HasSkippedKey(x.v[i])
      [] OTHER -> FALSE

SimplifyDone == op.fn = "simplifySchema" /\ op.done

\* C13: the result of simplifySchema has no key $ref, $defs or $schema
\* anywhere in its tree, whatever the nesting of the schema it was given.
C13_NoSkippedKeyInOutput == SimplifyDone => ~HasSkippedKey(ret)

\* C14: simplifySchema returns a result for every input value: it never
\* raises an error.
C14_SimplifyNeverThrows == SimplifyDone => ~IsThrow(ret)

\* the property holds a reference / a reference the code takes as one
HoldsRef(p) == HasKey(p, "$ref")
HoldsTruthyRef(p) == Truthy(Get(p, "$ref"))

\* {type: "object", description: d}
Collapsed(d) == JObj(<<KV("type", JStr("object")), KV("description", d)>>)

RefText(p) == JStr("Reference to " \o Get(p, "$ref").v)

\* the description of the property when it has one
DescriptionIfPresent(p) ==
    IF HasKey(p, "description") THEN Get(p, "description") ELSE RefText(p)

\* the description of the property when it is not empty
DescriptionIfTruthy(p) ==
    IF Truthy(Get(p, "description")) THEN Get(p, "description") ELSE RefText(p)

\* the two readings of "a property that holds a reference, with description"
Holds(p, asStated) == IF asStated THEN HoldsRef(p) ELSE HoldsTruthyRef(p)
Descr(p, asStated) ==
    IF asStated THEN DescriptionIfPresent(p) ELSE DescriptionIfTruthy(p)

\* every property of a properties map of the schema `in` that holds a
\* reference is, at the same place of the result `out`, the collapsed object
\* with its description; walks the two trees together
RECURSIVE RefPropsCollapsed(_, _, _)
RefPropsCollapsed(in, out, asStated) ==
    IF in.t = "arr"
    THEN \A i \in 1..Len(in.v) :
            RefPropsCollapsed(in.v[i], out.v[i], asStated)
    ELSE IF in.t # "obj" THEN TRUE
    ELSE \A i \in 1..Len(in.v) :
            LET k == in.v[i].k
                val == in.v[i].v
            IN  CASE k \in {"$ref", "$defs", "$schema"} -> TRUE
                  [] k = "properties" /\ val.t \in {"obj", "arr"} ->
                        \A j \in 1..Len(ObjectEntries(val)) :
                            LET e == ObjectEntries(val)[j]
                                o == Get(Get(out, k), e.k)
                            IN  IF Holds(e.v, asStated) THEN o = Collapsed(Descr(e.v, asStated))
                                ELSE HoldsTruthyRef(e.v)
                                     \/ RefPropsCollapsed(e.v, o, asStated)
                  [] k = "items" /\ HoldsTruthyRef(val) -> TRUE
                  [] OTHER -> RefPropsCollapsed(val, Get(out, k), asStated)

SimplifyReturned == SimplifyDone /\ ~IsThrow(ret)

\* C15 as stated: every property holding a reference becomes exactly
\* {type: "object", description: d}, d the original description when the
\* property has one and "Reference to <ref>" otherwise.
C15_RefPropertyCollapsed ==
    SimplifyReturned =>
        RefPropsCollapsed(arg[1], ret, TRUE)

\* C15 (amended): every property of a properties map holding a non-empty
\* reference becomes exactly {type: "object", description: d}, d the original
\* description when it is not empty and "Reference to <ref>" otherwise; no
\* other field of the property survives.
C15_TruthyRefPropertyCollapsed ==
    SimplifyReturned =>
        RefPropsCollapsed(arg[1], ret, FALSE)

C15_Witness ==
    /\ SimplifyReturned
    /\ HasKey(arg[1], "properties")
    /\ Get(Get(arg[1], "properties"), "p")
          = JObj(<<KV("$ref", RefFoo), KV("description", JStr(""))>>)
    /\ Get(Get(ret, "properties"), "p") = Collapsed(JStr("Reference to #/$defs/Foo"))

\* C20: callTool returns the value under result whenever the body has a
\* result field, whatever the value, and the bare body when it has none.
C20_ResultUnwrapped ==
    (op.fn = "callTool" /\ op.done) =>
        ret = IF HasKey(arg[1], "result") THEN Get(arg[1], "result") ELSE arg[1]

\* C16: whichever entry point started the run, when the run has failed and
\* the handler has returned, the user has been sent the failure message
\* (unless Slack itself refused the handler's messages).
C16_FailedRunGetsReply ==
    (handler.pc = "done" /\ handler.runFailed /\ ~handler.slackFailed)
        => \E i \in 1..Len(posted) : posted[i] = FailureText

\* C21: from the call of runAgent to its end, after any number of tool
\* rounds and on every termination path, the caller's history array has the
\* length and the elements it had at the call.
C21_HistoryUnchanged ==
    /\ [](pc # "idle" => conversationHistory = historyAtCall)
    /\ [][(pc # "idle" /\ pc' # "idle")
            => conversationHistory' = conversationHistory]_vars

C21_Witness ==
    /\ pc = "done"
    /\ outcome = Failed("HTTP")
    /\ failure = "tool"
    /\ Len(toolLog) = 3
    /\ Len(messages) = 7
    /\ conversationHistory = JArr(<<Msg("user", JStr("earlier question"))>>)

\* the function lists a run of the given scope can build from what the tool
\* service answers
BuiltFrom(acc) ==
    {BuildFunctions(GetToolsByAccess(tools, acc)) : tools \in ServedCatalogs}

\* one fetch per run, issued before the first model call; every model call
\* carries the function list built from it; no model call after a failed fetch
FetchedOnce ==
    /\ fetchLog \in {0, 1}
    /\ (pc \in {"fetch", "model", "tool"} \/ modelLog >= 1) => fetchLog = 1
    /\ pc = "fetch" => modelLog = 0 /\ functions = <<>>
    /\ pc = "model" => /\ inflight.payload.functions = functions
                       /\ functions \in BuiltFrom(access)
    /\ failure = "catalog" => modelLog = 0

\* C22: a run fetches the tool list exactly once, before its first model
\* call, and hands the function list built from it to every model call; a
\* new run starts without functions of an earlier one, and a failed fetch
\* leaves the run without any model call.
C22_CatalogFetchedOncePerRun ==
    /\ []FetchedOnce
    /\ [][(pc \in {"model", "tool"} /\ pc' # "idle")
            => functions' = functions /\ fetchLog' = fetchLog]_vars
    /\ [][pc = "idle" => (pc' \in {"idle", "fetch", "done"} /\ functions' = <<>>
                           /\ modelLog' = 0)]_vars

C22_Witness ==
    /\ pc = "model"
    /\ modelLog = 3
    /\ fetchLog = 1
    /\ access = "write"
    /\ FunctionNames(functions) = {"rename"}

\* a step in which the run reaches listTools (the call of runAgent)
ReachesListTools == pc = "idle" /\ pc' # "idle"

\* a step in which the run reaches callTool: the model has answered with a
\* function call whose arguments parse
ReachesCallTool ==
    /\ pc = "model"
    /\ Len(replies') = Len(replies) + 1
    /\ replies'[Len(replies')] = "call"
    /\ message'.function_call.v.arguments \in ValidArgs

\* the run ends as not initialized, and has no request outstanding
EndsNotInitialized ==
    /\ pc' = "done"
    /\ outcome' = Failed("NotInitialized")
    /\ inflight' = NoCall

\* C23: when the client is not initialized (never, after a failed
\* initialization, or after disconnect), listTools and callTool fail as not
\* initialized and no request goes to the tool service.
C23_NotInitializedNoRequest ==
    /\ [][(ReachesListTools /\ ~isInitialized)
            => (EndsNotInitialized /\ fetchLog' = 0)]_vars
    /\ [][(ReachesCallTool /\ ~isInitialized)
            => (EndsNotInitialized /\ toolLog' = toolLog)]_vars
    /\ [][(inflight' # inflight /\ inflight'.kind \in {"tools", "tool"})
            => isInitialized]_vars

C23_Witness ==
    /\ pc = "done"
    /\ ~isInitialized
    /\ outcome = Failed("NotInitialized")
    /\ failure = "tool"
    /\ Len(replies) = 2
    /\ Len(toolLog) = 1
    /\ fetchLog = 1

\* the probe of the call in progress comes back with `answer` in this step
Answered(answer) ==
    /\ client.pc = "probing"
    /\ Len(client'.log) = Len(client.log) + 1
    /\ client'.log[Len(client'.log)] = answer

\* C24: initializeMcpClient sets the flag exactly when its probe comes back
\* with a success status; on a non-success status or a transport failure it
\* throws and the client stays uninitialized; called on an initialized
\* client it returns without a probe.
C24_InitializedIffProbeOk ==
    /\ [][(~isInitialized /\ isInitialized') => Answered("ok")]_vars
    /\ [][Answered("ok") => (isInitialized' /\ client'.pc = "returned")]_vars
    /\ [][(Answered("status") \/ Answered("transport"))
            => (~isInitialized' /\ client'.pc = "threw")]_vars
    /\ [][(client.pc = "idle" /\ client'.pc # "idle" /\ isInitialized)
            => /\ client'.pc = "returned"
               /\ client'.probes = client.probes
               /\ isInitialized']_vars
    /\ [][(client.pc = "idle" /\ client'.pc # "idle" /\ ~isInitialized)
            => /\ client'.pc = "probing"
               /\ client'.probes = client.probes + 1]_vars

C24_Witness ==
    /\ client.log = <<"status", "transport", "ok", "skipped">>
    /\ client.probes = 3
    /\ isInitialized

\* C25: the app takes events only once initializeMcpClient has returned
\* with the client initialized; after a failed initialization the app is
\* never started, and every run a handler starts finds the client
\* initialized.
C25_StartedOnlyAfterInitialized ==
    /\ [](boot = "started" => (isInitialized /\ client.log = <<"ok">>))
    /\ []((handler.pc # "idle" \/ pc # "idle") => boot = "started")
    /\ [][boot = "crashed" => boot' = "crashed"]_vars
    /\ [][(pc = "idle" /\ pc' # "idle")
            => (isInitialized /\ pc' = "fetch" /\ handler.pc = "calling")]_vars

C25_Witness ==
    /\ boot = "started"
    /\ handler.entry = "app_mention"
    /\ handler.pc = "calling"
    /\ pc = "model"
    /\ modelLog = 2

\* the prompt of the event being answered, and the messages runAgent
\* assembles from the history returned for it
CurrentPrompt == CleanText(arg[1][arg[3]].text)
AssembledForEvent == Assemble("read", JNull, ret, CurrentPrompt)

\* C26: the history returned for a threaded event does not hold the message
\* being answered: in the messages given to the model the prompt is there
\* once, as the last user message.
C26_PromptOnce ==
    (op.fn = "getThreadHistory" /\ op.done) =>
        /\ Cardinality({i \in 1..Len(AssembledForEvent) :
                           AssembledForEvent[i] = Msg("user", JStr(CurrentPrompt))}) = 1
        /\ AssembledForEvent[Len(AssembledForEvent)] = Msg("user", JStr(CurrentPrompt))

\* a handler calls runAgent in this step
RunStarts == pc = "idle" /\ pc' # "idle"

\* C27: a run has write scope only when the /plex command with subcommand
\* rename started it; ask, app mentions and assistant messages start runs
\* of read scope, and any other subcommand starts no run.
C27_WriteOnlyByRename ==
    /\ [][RunStarts =>
            /\ handler.entry \in Entries
            /\ access' = "write"
                  <=> (handler.entry = "plex" /\ handler.subcommand = "rename")
            /\ access' = "read"
                  <=> \/ handler.entry \in {"userMessage", "app_mention"}
                      \/ (handler.entry = "plex" /\ handler.subcommand = "ask")]_vars
    /\ []((handler.entry = "plex" /\ handler.subcommand \notin {"ask", "rename"})
            => (pc = "idle" /\ handler.pc = "done"
                /\ posted = <<"Unknown subcommand: " \o handler.subcommand>>))

C27_Witness ==
    /\ pc = "tool"
    /\ access = "write"
    /\ handler.entry = "plex"
    /\ handler.subcommand = "rename"
    /\ Len(toolLog) = 2

\* every description in the tree of x is a string
RECURSIVE StringDescriptions(_)
StringDescriptions(x) ==
    CASE x.t = "obj" ->
            \A i \in 1..Len(x.v) :
                IF x.v[i].k = "description" /\ x.v[i].v.t # "obj"
                THEN x.v[i].v.t = "str"
                ELSE IF x.v[i].k = "description" THEN FALSE
                ELSE StringDescriptions(x.v[i].v)
      [] x.t = "arr" -> \A i \in 1..Len(x.v) : StringDescriptions(x.v[i])
      [] OTHER -> TRUE

SimplifiedTwice == op.fn = "simplifySchemaTwice"

=============================================================================
